---- MODULE Spec2Model ----
(***************************************************************************)
(* Key-value store engine (kv_store.py, class KeyValueStore): the          *)
(* in-memory mappings store / ttl_store, the backing JSON file, the lock,  *)
(* the clock read by time.time(), and the callers' positions inside        *)
(* create / read / delete / batch_create.                                  *)
(*                                                                         *)
(* A Python dict is an insertion-ordered mapping: it is modelled as a      *)
(* sequence of <<key, value>> pairs with distinct keys.  An optional       *)
(* argument (ttl=None) is <<>> when absent and <<n>> when given.           *)
(***************************************************************************)
EXTENDS Integers, Sequences, FiniteSets, TLC

VARIABLES
    store,          \* self.store      : dict key -> value
    ttl_store,      \* self.ttl_store  : dict key -> absolute expiry time
    file,           \* content of self.file_path: the JSON document last dumped
    lock,           \* self.lock: NoThread, or the caller inside "with self.lock"
    now,            \* the clock time.time() reads
    pc,             \* pc[t]: the statement caller t executes next
    call,           \* call[t]: the invocation caller t is executing
    expired_keys,   \* expired_keys[t]: local of _clean_expired_keys
    idx,            \* idx[t]: position of the running for loop / comprehension
    result,         \* result[t]: what the call of t returns or raises, once decided
    pre,            \* history: pre[t] is the state in which the call of t started
    did,            \* history: did[t] is what the call of t has put and deleted so far
    last            \* history: the invocation that finished most recently

vars == <<store, ttl_store, file, lock, now, pc, call, expired_keys, idx,
          result, pre, did, last>>

---------------------------------------------------------------------------
(* Bounds of the model *)

\* the clock runs from 0 to MaxTime
MaxTime == 2

\* the max_file_size the engine under test is constructed with, in bytes
SmallMaxFileSize == 80

(* Program constants *)

\* len(key) > 32
MAX_KEY_LEN == 32

\* len(items) > 100
MAX_BATCH == 100

\* len(json.dumps(value)) > 16 * 1024
MAX_VALUE_SIZE == 16 * 1024

---------------------------------------------------------------------------
(* Callers, keys, values *)

Threads == {"t1", "t2"}
NoThread == "None"

Key1 == "key1"
Key2 == "key2"
\* 33 characters
LongKey == "key_that_is_longer_than_32_chars_"
ValidKeys == {Key1, Key2}
AllKeys == ValidKeys \cup {LongKey}

\* A value is a Python str: `text` followed by `pad` more characters.
Val1 == [text |-> "Ram", pad |-> 0]
Val2 == [text |-> "Bengalore", pad |-> 0]
\* json.dumps gives 16 * 1024 + 1 characters
BigValue == [text |-> "x", pad |-> MAX_VALUE_SIZE - 2]
ValidValues == {Val1, Val2}
AllValues == ValidValues \cup {BigValue}

NoTtl == <<>>
Ttls == {NoTtl, <<0>>, <<1>>}

\* Python truthiness of the ttl argument: None and 0 are falsy
Truthy(ttl) == ttl # NoTtl /\ ttl[1] # 0

---------------------------------------------------------------------------
(* dict operations *)

EmptyDict == <<>>

DictKeys(d) == {d[i][1] : i \in DOMAIN d}

\* key in d
Has(d, key) == key \in DictKeys(d)

\* d[key]
Get(d, key) == d[CHOOSE i \in DOMAIN d : d[i][1] = key][2]

\* d[key] = value: a new key is appended, a present key keeps its position
Put(d, key, value) ==
    IF Has(d, key)
    THEN [i \in DOMAIN d |-> IF d[i][1] = key THEN <<key, value>> ELSE d[i]]
    ELSE Append(d, <<key, value>>)

\* del d[key]
Del(d, key) == SelectSeq(d, LAMBDA p : p[1] # key)

---------------------------------------------------------------------------
(* JSON encoding of the snapshot *)

\* len(json.dumps(value)) of a str value: the characters and two quotes
json_dumps_len(value) == Len(value.text) + value.pad + 2

\* number of decimal digits of n >= 0
RECURSIVE Digits(_)
Digits(n) == IF n < 10 THEN 1 ELSE 1 + Digits(n \div 10)

\* json.dumps of a timestamp: time.time() + ttl is a float, written "n.0"
json_number_len(n) == Digits(n) + 2

\* length of the JSON text of a dict: {"k": v, "k": v}
RECURSIVE json_items_len(_, _)
json_items_len(d, is_value) ==
    IF d = <<>> THEN 0
    ELSE LET p == Head(d)
             one == Len(p[1]) + 2 + 2 +
                    (IF is_value THEN json_dumps_len(p[2]) ELSE json_number_len(p[2]))
         IN one + (IF Len(d) > 1 THEN 2 ELSE 0) + json_items_len(Tail(d), is_value)

json_dict_len(d, is_value) == 2 + json_items_len(d, is_value)

\* the file does not exist
Absent == [exists |-> FALSE, doc |-> <<>>]

\* json.dump({'store': self.store, 'ttl_store': self.ttl_store}, file)
json_dump(s, ts) ==
    [exists |-> TRUE, doc |-> << <<"store", s>>, <<"ttl_store", ts>> >>]

\* data.get(field, {}) on the loaded document
json_get(f, field) == IF Has(f.doc, field) THEN Get(f.doc, field) ELSE EmptyDict

\* os.path.getsize(self.file_path): {"store": {...}, "ttl_store": {...}}
getsize(f) ==
    10 + json_dict_len(json_get(f, "store"), TRUE)
       + 15 + json_dict_len(json_get(f, "ttl_store"), FALSE) + 1

max_file_size == SmallMaxFileSize

---------------------------------------------------------------------------
(* Invocations and their outcomes *)

NoValue == <<>>

Invocation(op, key, value, ttl, items) ==
    [op |-> op, key |-> key, value |-> value, ttl |-> ttl, items |-> items]

NoCall == Invocation("none", "", NoValue, NoTtl, <<>>)

\* what the caller sees: a normal return, or the exception raised
OK == "OK"
ValueError == "ValueError"
KeyError == "KeyError"
MemoryError == "MemoryError"

Outcome(status, ret) == [status |-> status, ret |-> ret]

NoOutcome == Outcome("none", NoValue)

\* the state a call starts in
Snapshot == [store |-> store, ttl_store |-> ttl_store, file |-> file, now |-> now]

NoSnapshot == [store |-> EmptyDict, ttl_store |-> EmptyDict, file |-> Absent, now |-> 0]

\* what a call has done to the mappings: the entries its own statements put, the
\* keys its own statements deleted, the keys its sweep removed
NoEffect == [put |-> <<>>, deleted |-> <<>>, swept |-> <<>>, raced |-> <<>>]

\* A finished invocation, as the next one finds it: what it reported and what it
\* did.  An invocation that put and deleted nothing leaves NoFinished.
NoFinished == [status |-> "none", put |-> <<>>, deleted |-> <<>>, swept |-> <<>>]

Finished(status, effect) ==
    IF effect.put = <<>> /\ effect.deleted = <<>> THEN NoFinished
    ELSE [status |-> status, put |-> effect.put, deleted |-> effect.deleted,
          swept |-> effect.swept]

---------------------------------------------------------------------------
(* __init__ *)

\* lines 15-25 on a path where no file exists: empty mappings, saved at once
Init ==
    /\ store = EmptyDict
    /\ ttl_store = EmptyDict
    /\ file = json_dump(EmptyDict, EmptyDict)
    /\ lock = NoThread
    /\ now = 0
    /\ pc = [t \in Threads |-> "idle"]
    /\ call = [t \in Threads |-> NoCall]
    /\ expired_keys = [t \in Threads |-> <<>>]
    /\ idx = [t \in Threads |-> 0]
    /\ result = [t \in Threads |-> NoOutcome]
    /\ pre = [t \in Threads |-> NoSnapshot]
    /\ did = [t \in Threads |-> NoEffect]
    /\ last = NoFinished

\* _load_store, lines 29-32: each mapping is read from the file, defaulting to {}
load_store(f, field) == json_get(f, field)

\* A new engine is constructed on the same file while no call is in progress
\* (the old instance is dropped): the file exists, so __init__ loads it.
Restart ==
    /\ \A t \in Threads : pc[t] = "idle"
    /\ file.exists
    /\ store' = load_store(file, "store")
    /\ ttl_store' = load_store(file, "ttl_store")
    /\ lock' = NoThread
    /\ last' = NoFinished
    /\ UNCHANGED <<file, now, pc, call, expired_keys, idx, result, pre, did>>

\* time passes
Tick ==
    /\ now < MaxTime
    /\ now' = now + 1
    /\ UNCHANGED <<store, ttl_store, file, lock, pc, call, expired_keys, idx,
                   result, pre, did, last>>

---------------------------------------------------------------------------
(* Control *)

Goto(t, label) ==
    /\ pc' = [pc EXCEPT ![t] = label]
    /\ UNCHANGED <<call, result, last>>

\* a return statement or a raise: the outcome is decided, the call is not left yet
Exit(t, status, ret) ==
    /\ pc' = [pc EXCEPT ![t] = "exit"]
    /\ result' = [result EXCEPT ![t] = Outcome(status, ret)]
    /\ UNCHANGED <<call, last>>

\* the call is entered: its arguments are bound; `checked` is the result of the
\* argument checks made before the gate (TRUE where there are none)
Enter(t, c, checked) ==
    /\ call' = [call EXCEPT ![t] = c]
    /\ IF checked
       THEN /\ pc' = [pc EXCEPT ![t] = "lock"]
            /\ UNCHANGED <<result, pre>>
       ELSE /\ pc' = [pc EXCEPT ![t] = "exit"]
            /\ result' = [result EXCEPT ![t] = Outcome(ValueError, NoValue)]
            /\ pre' = [pre EXCEPT ![t] = Snapshot]
    /\ UNCHANGED <<did, last>>

release_lock_skipped(t) == lock

\* the end of the "with self.lock" block (by return or by exception) and of the
\* call: the gate is released if this caller holds it, the caller has its result
release_lock(t) == IF lock = t THEN NoThread ELSE lock

Return(t) ==
    /\ pc[t] = "exit"
    /\ lock' = release_lock(t)
    /\ last' = Finished(result[t].status, did[t])
    /\ pc' = [pc EXCEPT ![t] = "idle"]
    /\ call' = [call EXCEPT ![t] = NoCall]
    /\ result' = [result EXCEPT ![t] = NoOutcome]
    /\ pre' = [pre EXCEPT ![t] = NoSnapshot]
    /\ did' = [did EXCEPT ![t] = NoEffect]
    /\ expired_keys' = [expired_keys EXCEPT ![t] = <<>>]
    /\ idx' = [idx EXCEPT ![t] = 0]
    /\ UNCHANGED <<store, ttl_store, file, now>>

---------------------------------------------------------------------------
(* with self.lock *)

lock_free_unchecked(t) == TRUE

\* the gate can be taken
lock_free(t) == lock = NoThread

\* lines 70, 90, 102, 123: the gate is taken when free; _clean_expired_keys
\* runs first, its comprehension starting at the first key of ttl_store
Acquire(t) ==
    /\ pc[t] = "lock"
    /\ lock_free(t)
    /\ lock' = t
    /\ pre' = [pre EXCEPT ![t] = Snapshot]
    /\ idx' = [idx EXCEPT ![t] = 1]
    /\ Goto(t, IF ttl_store = EmptyDict THEN "clean_save" ELSE "clean_scan")
    /\ UNCHANGED <<store, ttl_store, file, now, expired_keys, did>>

---------------------------------------------------------------------------
(* _clean_expired_keys *)

is_key_expired_late(clock, expiry) == clock > expiry + 1

is_key_expired_never(clock, expiry) == FALSE

is_key_expired_reversed(clock, expiry) == clock < expiry

is_key_expired_early(clock, expiry) == clock >= expiry

\* line 47: time.time() > self.ttl_store[key]
is_key_expired(clock, expiry) == clock > expiry

\* line 52: one key of the comprehension; each key reads the clock itself
CleanScan(t) ==
    /\ pc[t] = "clean_scan"
    /\ LET p == ttl_store[idx[t]]
           found == IF is_key_expired(now, p[2])
                    THEN Append(expired_keys[t], p[1]) ELSE expired_keys[t]
       IN /\ expired_keys' = [expired_keys EXCEPT ![t] = found]
          /\ IF idx[t] < Len(ttl_store)
             THEN /\ idx' = [idx EXCEPT ![t] = idx[t] + 1]
                  /\ Goto(t, "clean_scan")
             ELSE /\ idx' = [idx EXCEPT ![t] = 1]
                  /\ Goto(t, IF found = <<>> THEN "clean_save" ELSE "clean_del_store")
    /\ UNCHANGED <<store, ttl_store, file, lock, now, pre, did>>

\* line 54: del self.store[key]; a key missing from store raises KeyError
CleanDelStore(t) ==
    /\ pc[t] = "clean_del_store"
    /\ LET key == expired_keys[t][idx[t]]
       IN IF Has(store, key)
          THEN /\ store' = Del(store, key)
               /\ did' = [did EXCEPT ![t].swept = Append(@, key)]
               /\ Goto(t, "clean_del_ttl")
          ELSE /\ Exit(t, KeyError, NoValue)
               /\ UNCHANGED <<store, did>>
    /\ UNCHANGED <<ttl_store, file, lock, now, expired_keys, idx, pre>>

\* line 55: del self.ttl_store[key], then the next expired key
CleanDelTtl(t) ==
    /\ pc[t] = "clean_del_ttl"
    /\ ttl_store' = Del(ttl_store, expired_keys[t][idx[t]])
    /\ IF idx[t] < Len(expired_keys[t])
       THEN /\ idx' = [idx EXCEPT ![t] = idx[t] + 1]
            /\ Goto(t, "clean_del_store")
       ELSE /\ idx' = [idx EXCEPT ![t] = 1]
            /\ Goto(t, "clean_save")
    /\ UNCHANGED <<store, file, lock, now, expired_keys, pre, did>>

\* the statement that follows self._clean_expired_keys() in each operation
AfterClean(c) ==
    CASE c.op = "create" -> "create_check"
      [] c.op = "read" -> "read_lookup"
      [] c.op = "delete" -> "delete_check"
      [] c.op = "batch_create" -> IF c.items = <<>> THEN "batch_save" ELSE "batch_item"

save_store_skipped(s, ts) == file

\* _save_store, lines 36-37: the whole of both mappings overwrites the file
save_store(s, ts) == json_dump(s, ts)

\* line 56: self._save_store(), whether or not anything was removed
CleanSave(t) ==
    /\ pc[t] = "clean_save"
    /\ file' = save_store(store, ttl_store)
    /\ expired_keys' = [expired_keys EXCEPT ![t] = <<>>]
    /\ Goto(t, AfterClean(call[t]))
    /\ UNCHANGED <<store, ttl_store, lock, now, idx, pre, did>>

\* history: the call of t puts key -> value / deletes key
\* the call c is asked to insert key
Asks(c, key) ==
    \/ c.op = "create" /\ c.key = key
    \/ c.op = "batch_create" /\ \E i \in DOMAIN c.items : c.items[i][1] = key

\* a caller that waits at the gate with a call asking for the same key is noted
\* as raced: `raced` holds the latest entry another caller put under such a key
DidPut(t, key, value) ==
    did' = [u \in Threads |->
              IF u = t THEN [did[t] EXCEPT !.put = Append(@, <<key, value>>)]
              ELSE IF pc[u] = "lock" /\ Asks(call[u], key)
                   THEN [did[u] EXCEPT !.raced = << <<key, value>> >>]
                   ELSE did[u]]

DidDelete(t, key) ==
    did' = [did EXCEPT ![t].deleted = Append(@, key)]

---------------------------------------------------------------------------
(* create *)

create_valid_unchecked(key, value) == TRUE

\* lines 65-68: the argument checks, made before the gate is taken
create_valid(key, value) ==
    /\ ~(Len(key) > MAX_KEY_LEN)
    /\ ~(json_dumps_len(value) > MAX_VALUE_SIZE)

\* create(key, value, ttl) is called: lines 65-68
Create(t, key, value, ttl) ==
    /\ pc[t] = "idle"
    /\ Enter(t, Invocation("create", key, <<value>>, ttl, <<>>), create_valid(key, value))
    /\ UNCHANGED <<store, ttl_store, file, lock, now, expired_keys, idx>>

create_duplicate_unchecked(s, key) == FALSE

create_duplicate_in_ttl_store(s, key) == Has(ttl_store, key)

\* line 73: if key in self.store
create_duplicate(s, key) == Has(s, key)

\* lines 73-76: the duplicate check, then self.store[key] = value
CreateCheck(t) ==
    /\ pc[t] = "create_check"
    /\ IF create_duplicate(store, call[t].key)
       THEN /\ Exit(t, KeyError, NoValue)
            /\ UNCHANGED <<store, did>>
       ELSE /\ store' = Put(store, call[t].key, call[t].value[1])
            /\ DidPut(t, call[t].key, call[t].value[1])
            /\ Goto(t, "create_ttl")
    /\ UNCHANGED <<ttl_store, file, lock, now, expired_keys, idx, pre>>

\* lines 78-79 and 136-137: if ttl: self.ttl_store[key] = time.time() + ttl
record_ttl(ts, key, ttl, clock) ==
    IF Truthy(ttl) THEN Put(ts, key, clock + ttl[1]) ELSE ts

CreateTtl(t) ==
    /\ pc[t] = "create_ttl"
    /\ ttl_store' = record_ttl(ttl_store, call[t].key, call[t].ttl, now)
    /\ Goto(t, "create_save")
    /\ UNCHANGED <<store, file, lock, now, expired_keys, idx, pre, did>>

\* lines 81 and 139: self._save_store()
SaveAfterInsert(t) ==
    /\ pc[t] \in {"create_save", "batch_save"}
    /\ file' = save_store(store, ttl_store)
    /\ Goto(t, "check_file_size")
    /\ UNCHANGED <<store, ttl_store, lock, now, expired_keys, idx, pre, did>>

file_too_big_never(f) == FALSE

\* _check_file_size, lines 41-42
file_too_big(f) == f.exists /\ getsize(f) > max_file_size

\* lines 82 and 140: self._check_file_size(), the last statement of the block
CheckFileSize(t) ==
    /\ pc[t] = "check_file_size"
    /\ IF file_too_big(file)
       THEN Exit(t, MemoryError, NoValue)
       ELSE Exit(t, OK, NoValue)
    /\ UNCHANGED <<store, ttl_store, file, lock, now, expired_keys, idx, pre, did>>

---------------------------------------------------------------------------
(* read *)

\* read(key) is called: line 90
Read(t, key) ==
    /\ pc[t] = "idle"
    /\ Enter(t, Invocation("read", key, NoValue, NoTtl, <<>>), TRUE)
    /\ UNCHANGED <<store, ttl_store, file, lock, now, expired_keys, idx>>

read_value_first(s, key) == <<s[1][2]>>

\* line 95: return self.store[key]
read_value(s, key) == <<Get(s, key)>>

\* lines 93-95
ReadLookup(t) ==
    /\ pc[t] = "read_lookup"
    /\ IF ~Has(store, call[t].key)
       THEN Exit(t, KeyError, NoValue)
       ELSE Exit(t, OK, read_value(store, call[t].key))
    /\ UNCHANGED <<store, ttl_store, file, lock, now, expired_keys, idx, pre, did>>

---------------------------------------------------------------------------
(* delete *)

\* delete(key) is called: line 102
Delete(t, key) ==
    /\ pc[t] = "idle"
    /\ Enter(t, Invocation("delete", key, NoValue, NoTtl, <<>>), TRUE)
    /\ UNCHANGED <<store, ttl_store, file, lock, now, expired_keys, idx>>

delete_missing_never(s, key) == FALSE

\* line 105: if key not in self.store
delete_missing(s, key) == ~Has(s, key)

\* lines 105-108: the presence check, then del self.store[key]
DeleteCheck(t) ==
    /\ pc[t] = "delete_check"
    /\ IF delete_missing(store, call[t].key)
       THEN /\ Exit(t, KeyError, NoValue)
            /\ UNCHANGED <<store, did>>
       ELSE /\ store' = Del(store, call[t].key)
            /\ DidDelete(t, call[t].key)
            /\ Goto(t, "delete_ttl")
    /\ UNCHANGED <<ttl_store, file, lock, now, expired_keys, idx, pre>>

delete_ttl_forgotten(ts, key) == ts

\* lines 109-110: if key in self.ttl_store: del self.ttl_store[key]
delete_ttl(ts, key) == IF Has(ts, key) THEN Del(ts, key) ELSE ts

DeleteTtl(t) ==
    /\ pc[t] = "delete_ttl"
    /\ ttl_store' = delete_ttl(ttl_store, call[t].key)
    /\ Goto(t, "delete_save")
    /\ UNCHANGED <<store, file, lock, now, expired_keys, idx, pre, did>>

\* line 112: self._save_store(), the last statement of the block
DeleteSave(t) ==
    /\ pc[t] = "delete_save"
    /\ file' = save_store(store, ttl_store)
    /\ Exit(t, OK, NoValue)
    /\ UNCHANGED <<store, ttl_store, lock, now, expired_keys, idx, pre, did>>

---------------------------------------------------------------------------
(* batch_create *)

batch_valid_no_limit(items) == TRUE

\* line 120
batch_valid(items) == ~(Len(items) > MAX_BATCH)

\* batch_create(items, ttl) is called: lines 120-121
BatchCreate(t, items, ttl) ==
    /\ pc[t] = "idle"
    /\ Enter(t, Invocation("batch_create", "", NoValue, ttl, items), batch_valid(items))
    /\ UNCHANGED <<store, ttl_store, file, lock, now, expired_keys, idx>>

batch_item_error_key_unchecked(s, key, value) ==
    IF json_dumps_len(value) > MAX_VALUE_SIZE THEN ValueError
    ELSE IF Has(s, key) THEN KeyError
    ELSE OK

batch_item_error_dup_unchecked(s, key, value) ==
    IF Len(key) > MAX_KEY_LEN THEN ValueError
    ELSE IF json_dumps_len(value) > MAX_VALUE_SIZE THEN ValueError
    ELSE OK

\* lines 127-132: the exception an item raises, or OK
batch_item_error(s, key, value) ==
    IF Len(key) > MAX_KEY_LEN THEN ValueError
    ELSE IF json_dumps_len(value) > MAX_VALUE_SIZE THEN ValueError
    ELSE IF Has(s, key) THEN KeyError
    ELSE OK

\* lines 126-134: one item of the loop: its checks, then self.store[key] = value
BatchItem(t) ==
    /\ pc[t] = "batch_item"
    /\ LET item == call[t].items[idx[t]]
           err == batch_item_error(store, item[1], item[2])
       IN IF err # OK
          THEN /\ Exit(t, err, NoValue)
               /\ UNCHANGED <<store, did>>
          ELSE /\ store' = Put(store, item[1], item[2])
               /\ DidPut(t, item[1], item[2])
               /\ Goto(t, "batch_ttl")
    /\ UNCHANGED <<ttl_store, file, lock, now, expired_keys, idx, pre>>

\* lines 136-137 for the item, then the next item or line 139
BatchTtl(t) ==
    /\ pc[t] = "batch_ttl"
    /\ ttl_store' = record_ttl(ttl_store, call[t].items[idx[t]][1], call[t].ttl, now)
    /\ IF idx[t] < Len(call[t].items)
       THEN /\ idx' = [idx EXCEPT ![t] = idx[t] + 1]
            /\ Goto(t, "batch_item")
       ELSE /\ idx' = [idx EXCEPT ![t] = 1]
            /\ Goto(t, "batch_save")
    /\ UNCHANGED <<store, file, lock, now, expired_keys, pre, did>>

---------------------------------------------------------------------------
(* The callers' inputs, and the specifications *)

\* a batch of MAX_BATCH + 1 items, with distinct keys
OversizedBatch == [i \in 1..(MAX_BATCH + 1) |-> <<"k" \o ToString(i), Val1>>]

\* the batches callers pass: dicts, so the keys of one batch are distinct
Batches ==
    { << <<Key1, Val1>>, <<Key2, Val2>> >>,
      << <<Key1, Val2>>, <<LongKey, Val1>> >>,
      << <<Key2, Val2>>, <<Key1, BigValue>> >>,
      OversizedBatch }

\* the narrower inputs of concurrent callers
FewValues == {Val1, Val2}
FewTtls == {NoTtl, <<1>>}
FewBatches == { << <<Key1, Val1>> >> }

\* caller t invokes an operation with arguments of the given sets
Invoke(t, keys, values, ttls, batches) ==
    \/ \E key \in keys, value \in values, ttl \in ttls : Create(t, key, value, ttl)
    \/ \E key \in keys : Read(t, key)
    \/ \E key \in keys : Delete(t, key)
    \/ \E items \in batches, ttl \in ttls : BatchCreate(t, items, ttl)

\* caller t executes the next statement of its call
Proceed(t) ==
    \/ Acquire(t)
    \/ CleanScan(t)
    \/ CleanDelStore(t)
    \/ CleanDelTtl(t)
    \/ CleanSave(t)
    \/ CreateCheck(t)
    \/ CreateTtl(t)
    \/ SaveAfterInsert(t)
    \/ CheckFileSize(t)
    \/ ReadLookup(t)
    \/ DeleteCheck(t)
    \/ DeleteTtl(t)
    \/ DeleteSave(t)
    \/ BatchItem(t)
    \/ BatchTtl(t)
    \/ Return(t)

\* One caller: every call runs to its end before the next one is made.
Next ==
    \/ Tick
    \/ Restart
    \/ Invoke("t1", AllKeys, AllValues, Ttls, Batches)
    \/ Proceed("t1")

Spec == Init /\ [][Next]_vars

\* Concurrent callers: the calls of the callers interleave statement by statement.
NextConc ==
    \/ Tick
    \/ Restart
    \/ \E t \in Threads : Invoke(t, {Key1}, FewValues, FewTtls, FewBatches) \/ Proceed(t)

SpecConc == Init /\ [][NextConc]_vars

\* Fair scheduling of the concurrent callers: a caller that can execute its next
\* statement eventually does, and a caller waiting at a gate that is free again
\* and again eventually takes it.  Callers need not call, the clock need not tick.
Fairness ==
    \A t \in Threads : WF_vars(Proceed(t)) /\ SF_vars(Acquire(t))

\* the concurrent callers of the fair specification: one value, and a batch that
\* raises inside the gate at an invalid item
FairBatches == { << <<Key1, Val1>> >>, << <<LongKey, Val1>> >> }

NextFair ==
    \/ Tick
    \/ Restart
    \/ \E t \in Threads :
          \/ Invoke(t, {Key1}, {Val1}, FewTtls, FairBatches)
          \/ Proceed(t)

SpecFair == Init /\ [][NextFair]_vars /\ Fairness

---------------------------------------------------------------------------
(* Vocabulary of the properties.  A call of caller t whose outcome is decided   *)
(* is at "exit": result[t] is what it reports, pre[t] the state in which it     *)
(* took the gate, did[t] what it did, `last` the invocation finished just       *)
(* before it, and the mappings are as the call leaves them.                     *)

AtExit(t, op) == pc[t] = "exit" /\ call[t].op = op

\* the spec's names of the errors
InvalidArgument == ValueError
AlreadyExists == KeyError
NotFound == KeyError
CapacityExceeded == MemoryError

\* key carries an expiry in ts that has passed at time clock (time.time() > expiry)
Elapsed(ts, key, clock) == Has(ts, key) /\ clock > Get(ts, key)

\* the sweep of the call of t removed key
Swept(t, key) == \E i \in DOMAIN did[t].swept : did[t].swept[i] = key

\* the entries of a dict, as a set
Entries(d) == {d[i] : i \in DOMAIN d}

---------------------------------------------------------------------------
\* C1: Insert/read round trip.  When the invocation that finished just before a
\* read(k) is a successful create or batch_create that inserted (k, v), and the
\* entry has no expiry or its expiry has not passed, the read returns exactly v.
C1_InsertReadRoundTrip ==
    \A t \in Threads :
        (AtExit(t, "read") /\ last.status = OK) =>
            \A i \in DOMAIN last.put :
                (/\ last.put[i][1] = call[t].key
                 /\ ~Elapsed(pre[t].ttl_store, call[t].key, now))
                => result[t] = Outcome(OK, <<last.put[i][2]>>)

\* a read of the second key of a successful two-item batch returns its value
C1_Witness ==
    \E t \in Threads :
        /\ AtExit(t, "read")
        /\ call[t].key = Key2
        /\ last.status = OK
        /\ last.put = << <<Key1, Val1>>, <<Key2, Val2>> >>
        /\ result[t] = Outcome(OK, <<Val2>>)

\* C2: Duplicate rejection.  A create (with valid arguments) of a key that is
\* present when the call takes the gate and that its sweep does not remove (so
\* neither deleted nor expired since it was created) fails with AlreadyExists,
\* and the value and the expiry stored under the key stay as they were.
C2_DuplicateRejected ==
    \A t \in Threads :
        (/\ AtExit(t, "create")
         /\ create_valid(call[t].key, call[t].value[1])
         /\ Has(pre[t].store, call[t].key)
         /\ ~Swept(t, call[t].key))
        => /\ result[t] = Outcome(AlreadyExists, NoValue)
           /\ Has(store, call[t].key)
           /\ Get(store, call[t].key) = Get(pre[t].store, call[t].key)
           /\ did[t].put = <<>>

\* create(key1, v2) is rejected right after create(key1, v1) succeeded
C2_Witness ==
    \E t \in Threads :
        /\ AtExit(t, "create")
        /\ call[t].key = Key1
        /\ call[t].value = <<Val2>>
        /\ last.status = OK
        /\ last.put = << <<Key1, Val1>> >>
        /\ result[t].status = AlreadyExists
        /\ Get(store, Key1) = Val1

\* C3 as stated: a read(k) that takes the gate at a time now >= e, e the expiry
\* of k, fails with NotFound (the instant now = e included).
C3_ExpiredFromInstantOn ==
    \A t \in Threads :
        (/\ AtExit(t, "read")
         /\ Has(pre[t].ttl_store, call[t].key)
         /\ pre[t].now >= Get(pre[t].ttl_store, call[t].key))
        => result[t].status = NotFound

\* C3 amended: a read(k) that takes the gate at a time now > e, e the expiry of
\* k, fails with NotFound and returns no value.
C3_ExpiredAfterInstant ==
    \A t \in Threads :
        (/\ AtExit(t, "read")
         /\ Has(pre[t].ttl_store, call[t].key)
         /\ pre[t].now > Get(pre[t].ttl_store, call[t].key))
        => /\ result[t] = Outcome(NotFound, NoValue)
           /\ ~Has(store, call[t].key)

\* a read started after the expiry of its key has failed, the entry swept
C3_Witness ==
    \E t \in Threads :
        /\ AtExit(t, "read")
        /\ Elapsed(pre[t].ttl_store, call[t].key, pre[t].now)
        /\ Swept(t, call[t].key)
        /\ result[t].status = NotFound

\* C4: Re-creation after expiry.  A key whose expiry has passed when a create of
\* it (with valid arguments) takes the gate is no duplicate: the create inserts
\* the new value and reports OK, or CapacityExceeded when the snapshot it wrote
\* is over the size cap; a batch_create is never stopped with AlreadyExists at
\* an item whose key had expired; and a read that directly follows an
\* invocation that swept the key and put (k, v2) returns v2 while the new
\* expiry has not passed.
C4_RecreateAfterExpiry ==
    \A t \in Threads :
        /\ (/\ AtExit(t, "create")
            /\ create_valid(call[t].key, call[t].value[1])
            /\ Elapsed(pre[t].ttl_store, call[t].key, pre[t].now))
           => /\ Swept(t, call[t].key)
              /\ did[t].put = << <<call[t].key, call[t].value[1]>> >>
              /\ Has(store, call[t].key)
              /\ Get(store, call[t].key) = call[t].value[1]
              /\ result[t].status = IF file_too_big(file) THEN CapacityExceeded ELSE OK
        /\ (/\ AtExit(t, "batch_create")
            /\ result[t].status = AlreadyExists)
           => LET item == call[t].items[Len(did[t].put) + 1]
              IN ~Elapsed(pre[t].ttl_store, item[1], pre[t].now)
        /\ AtExit(t, "read") =>
              \A i \in DOMAIN last.put :
                  (/\ last.put[i][1] = call[t].key
                   /\ \E j \in DOMAIN last.swept : last.swept[j] = call[t].key
                   /\ ~Elapsed(pre[t].ttl_store, call[t].key, now))
                  => result[t] = Outcome(OK, <<last.put[i][2]>>)

\* key1 expired, create(key1, v2) swept it and put v2, and the read returns v2
C4_Witness ==
    \E t \in Threads :
        /\ AtExit(t, "read")
        /\ call[t].key = Key1
        /\ last.status = OK
        /\ last.swept = <<Key1>>
        /\ last.put = << <<Key1, Val2>> >>
        /\ result[t] = Outcome(OK, <<Val2>>)

---------------------------------------------------------------------------
\* what read(key) gives on an engine holding mappings s and ts at time clock:
\* <<value>>, or <<>> for NotFound
Readable(s, ts, key, clock) ==
    IF Has(s, key) /\ ~Elapsed(ts, key, clock) THEN <<Get(s, key)>> ELSE NoValue

NoCallInProgress == \A t \in Threads : pc[t] = "idle"

\* C5 as stated: Restart round trip.  Whenever no call is in progress, an engine
\* constructed on the backing file reads every key as the running engine does:
\* the same value, or NotFound on both.
C5_RestartRoundTrip ==
    NoCallInProgress =>
        \A key \in ValidKeys :
            Readable(load_store(file, "store"), load_store(file, "ttl_store"), key, now)
                = Readable(store, ttl_store, key, now)

\* C6 as stated: in every reachable state, between operations and at every step
\* inside them, every key of ttl_store is a key of store.
C6_TtlKeysInStore == DictKeys(ttl_store) \subseteq DictKeys(store)

\* a caller stands between "del self.store[key]" and "del self.ttl_store[key]"
\* (lines 54-55) or between line 108 and lines 109-110
BetweenTheTwoDeletes == \E t \in Threads : pc[t] \in {"clean_del_ttl", "delete_ttl"}

\* C6 amended: in every reachable state in which no caller stands between the
\* removal of a key from store and its removal from ttl_store (so between
\* operations, and at every other step inside them), every key of ttl_store is
\* a key of store.
C6_TtlKeysInStoreOutsideDeletes ==
    ~BetweenTheTwoDeletes => DictKeys(ttl_store) \subseteq DictKeys(store)

\* a sweep has removed its first expired key from both mappings and is about to
\* remove the second one, which is still in both
C6_Witness ==
    \E t \in Threads :
        /\ pc[t] = "clean_del_store"
        /\ idx[t] = 2
        /\ Has(ttl_store, expired_keys[t][2])
        /\ Has(store, expired_keys[t][2])
        /\ ~Has(ttl_store, expired_keys[t][1])

\* the statements inside the "with self.lock" blocks: every statement that reads
\* or writes store, ttl_store or the file
GateSteps ==
    {"clean_scan", "clean_del_store", "clean_del_ttl", "clean_save",
     "create_check", "create_ttl", "create_save", "check_file_size",
     "read_lookup", "delete_check", "delete_ttl", "delete_save",
     "batch_item", "batch_ttl", "batch_save"}

\* C7: Mutual exclusion.  With concurrent callers, a caller that stands at a
\* statement of a gated block holds the gate, so at most one caller is inside
\* sweep, lookup/mutation, persistence or size check; and every step of a call
\* that changes store, ttl_store or the file is taken by the holder of the gate.
C7_MutualExclusion ==
    /\ [](\A t \in Threads : pc[t] \in GateSteps => lock = t)
    /\ [](\A t1, t2 \in Threads :
            (pc[t1] \in GateSteps /\ pc[t2] \in GateSteps) => t1 = t2)
    /\ [][(/\ <<store, ttl_store, file>>' # <<store, ttl_store, file>>
           /\ ~NoCallInProgress)
          => (lock \in Threads /\ pc[lock] \in GateSteps /\ pc'[lock] # pc[lock])]_vars

\* one caller is inside its gated block after inserting, the other waits at the gate
C7_Witness ==
    \E t1, t2 \in Threads :
        /\ pc[t1] = "create_ttl"
        /\ lock = t1
        /\ pc[t2] = "lock"
        /\ call[t2].op = "create"
        /\ call[t2].key = call[t1].key

\* C8 as stated: All-or-nothing.  An invocation that reports an error has applied
\* none of its insertions and removals, and one that reports success has applied
\* all of them.
C8_AllOrNothing ==
    \A t \in Threads :
        pc[t] = "exit" =>
            IF result[t].status # OK
            THEN did[t].put = <<>> /\ did[t].deleted = <<>>
            ELSE /\ call[t].op = "create" =>
                    did[t].put = << <<call[t].key, call[t].value[1]>> >>
                 /\ call[t].op = "batch_create" => did[t].put = call[t].items
                 /\ call[t].op = "delete" => did[t].deleted = <<call[t].key>>

\* C9: Oversized batch.  A batch_create of more than 100 items fails with
\* InvalidArgument at once: it never waits for the gate, sweeps nothing and puts
\* nothing, and store, ttl_store and the file are as they were when it was called.
C9_OversizedBatchRejected ==
    \A t \in Threads :
        (call[t].op = "batch_create" /\ Len(call[t].items) > MAX_BATCH)
        => /\ pc[t] = "exit"
           /\ result[t] = Outcome(InvalidArgument, NoValue)
           /\ lock # t
           /\ did[t] = NoEffect
           /\ store = pre[t].store
           /\ ttl_store = pre[t].ttl_store
           /\ file = pre[t].file

\* a batch of 101 items was rejected while the store holds an entry whose expiry
\* has passed: the entry is still there
C9_Witness ==
    \E t \in Threads :
        /\ AtExit(t, "batch_create")
        /\ Len(call[t].items) = MAX_BATCH + 1
        /\ result[t].status = InvalidArgument
        /\ \E key \in ValidKeys : Has(store, key) /\ Elapsed(ttl_store, key, now)

---------------------------------------------------------------------------
---------------------------------------------------------------------------
\* the keys of the first n items of a batch
KeysBefore(items, n) == {items[i][1] : i \in 1..(n - 1)}

\* what the spec asks of item j of the batch of t: the error kind it must raise,
\* or OK; "present" is present after the sweep or put by an earlier item
ItemVerdict(t, j) ==
    LET item == call[t].items[j]
    IN IF Len(item[1]) > MAX_KEY_LEN \/ json_dumps_len(item[2]) > MAX_VALUE_SIZE
       THEN InvalidArgument
       ELSE IF \/ Has(pre[t].store, item[1]) /\ ~Swept(t, item[1])
               \/ item[1] \in KeysBefore(call[t].items, j)
            THEN AlreadyExists
            ELSE OK

\* C12: Partial batch.  A batch_create of at most 100 items stops at its first
\* item that is invalid or a duplicate and reports that item's error.  The items
\* before it, and only they, have been put: each is in store with its value, and
\* a read of it that directly follows returns the value (while its expiry has not
\* passed); the failing item and the items after it have not been put, so a key
\* of theirs that was absent is absent still.
C12_PartialBatch ==
    \A t \in Threads :
        /\ (AtExit(t, "batch_create") /\ batch_valid(call[t].items)) =>
              LET items == call[t].items
                  n == Len(did[t].put)
              IN /\ n <= Len(items)
                 /\ did[t].put = SubSeq(items, 1, n)
                 /\ \A i \in 1..n :
                        /\ ItemVerdict(t, i) = OK
                        /\ Has(store, items[i][1])
                        /\ Get(store, items[i][1]) = items[i][2]
                 /\ n < Len(items) =>
                        /\ ItemVerdict(t, n + 1) # OK
                        /\ result[t] = Outcome(ItemVerdict(t, n + 1), NoValue)
                 /\ \A j \in (n + 1)..Len(items) :
                        (/\ ~Has(pre[t].store, items[j][1])
                         /\ items[j][1] \notin KeysBefore(items, n + 1))
                        => ~Has(store, items[j][1])
                 /\ n = Len(items) => result[t].status \in {OK, CapacityExceeded}
        /\ (/\ AtExit(t, "read")
            /\ last.status \in {InvalidArgument, AlreadyExists})
           => \A i \in DOMAIN last.put :
                  (/\ last.put[i][1] = call[t].key
                   /\ ~Elapsed(pre[t].ttl_store, call[t].key, now))
                  => result[t] = Outcome(OK, <<last.put[i][2]>>)

\* the batch {key1: v2, <33-character key>: v1} failed at its second item, and
\* the read of key1 that follows returns v2
C12_Witness ==
    \E t \in Threads :
        /\ AtExit(t, "read")
        /\ call[t].key = Key1
        /\ last.status = InvalidArgument
        /\ last.put = << <<Key1, Val2>> >>
        /\ ~Has(store, LongKey)
        /\ result[t] = Outcome(OK, <<Val2>>)

---------------------------------------------------------------------------
\* the items a create or batch_create call is asked to insert
Asked(c) ==
    IF c.op = "create" THEN << <<c.key, c.value[1]>> >> ELSE c.items

Inserting(t) == AtExit(t, "create") \/ AtExit(t, "batch_create")

\* C13: Size check after the write.  A create or batch_create that has put all
\* its items and saved reports CapacityExceeded exactly when the file it wrote is
\* larger than max_file_size, and nothing is rolled back: every new key is in
\* store and in the "store" mapping of the file with its value, and the file is
\* the snapshot of the two mappings.  A read of such a key that directly follows
\* returns the value (while its expiry has not passed), and a create of such a
\* key, with valid arguments, that directly follows fails with AlreadyExists
\* (unless its sweep removed the key as expired).
C13_SizeCheckAfterWrite ==
    \A t \in Threads :
        /\ (Inserting(t) /\ did[t].put = Asked(call[t]) /\ result[t].status # AlreadyExists)
           => /\ result[t].status =
                     IF getsize(file) > max_file_size THEN CapacityExceeded ELSE OK
              /\ file = json_dump(store, ttl_store)
              /\ \A i \in DOMAIN did[t].put :
                     LET key == did[t].put[i][1]
                         value == did[t].put[i][2]
                     IN /\ Has(store, key) /\ Get(store, key) = value
                        /\ Has(json_get(file, "store"), key)
                        /\ Get(json_get(file, "store"), key) = value
        /\ (Inserting(t) /\ result[t].status = CapacityExceeded)
           => did[t].put = Asked(call[t]) /\ getsize(file) > max_file_size
        /\ (AtExit(t, "read") /\ last.status = CapacityExceeded)
           => \A i \in DOMAIN last.put :
                  (/\ last.put[i][1] = call[t].key
                   /\ ~Elapsed(pre[t].ttl_store, call[t].key, now))
                  => result[t] = Outcome(OK, <<last.put[i][2]>>)
        /\ (/\ AtExit(t, "create")
            /\ create_valid(call[t].key, call[t].value[1])
            /\ last.status = CapacityExceeded
            /\ \E i \in DOMAIN last.put : last.put[i][1] = call[t].key
            /\ ~Swept(t, call[t].key))
           => result[t] = Outcome(AlreadyExists, NoValue)

\* a create of key2 follows a batch that put key1 and key2 and reported
\* CapacityExceeded: it fails with AlreadyExists, key2 is in memory and on file
C13_Witness ==
    \E t \in Threads :
        /\ AtExit(t, "create")
        /\ call[t].key = Key2
        /\ last.status = CapacityExceeded
        /\ last.put = << <<Key1, Val1>>, <<Key2, Val2>> >>
        /\ result[t].status = AlreadyExists
        /\ Get(store, Key2) = Val2
        /\ Has(json_get(file, "store"), Key2)

---------------------------------------------------------------------------
\* C14: Fail-fast validation in create.  A create whose key is longer than 32
\* characters or whose serialized value is larger than 16 KiB fails with
\* InvalidArgument at once: it never waits for the gate, puts nothing, removes
\* nothing, and store, ttl_store and the file are as they were when it was called.
C14_CreateFailsFast ==
    \A t \in Threads :
        (/\ call[t].op = "create"
         /\ \/ Len(call[t].key) > MAX_KEY_LEN
            \/ json_dumps_len(call[t].value[1]) > MAX_VALUE_SIZE)
        => /\ pc[t] = "exit"
           /\ result[t] = Outcome(InvalidArgument, NoValue)
           /\ lock # t
           /\ did[t] = NoEffect
           /\ store = pre[t].store
           /\ ttl_store = pre[t].ttl_store
           /\ file = pre[t].file

\* a create with a value over 16 KiB was rejected, the store not empty
C14_Witness ==
    \E t \in Threads :
        /\ AtExit(t, "create")
        /\ call[t].key \in ValidKeys
        /\ call[t].value = <<BigValue>>
        /\ result[t].status = InvalidArgument
        /\ store # EmptyDict
        /\ file = json_dump(store, ttl_store)

---------------------------------------------------------------------------
\* the entries of ttl_store that were there, with an expiry already passed, when
\* the call of t was made (when it took the gate, if it did)
StaleEntries(t) ==
    {e \in Entries(ttl_store) : e \in Entries(pre[t].ttl_store) /\ pre[t].now > e[2]}

\* C15 as stated: Unconditional sweep first.  When a call of create, read, delete
\* or batch_create returns or raises, a failed argument validation included, no
\* entry that was expired when the call was made remains.
C15_SweepInEveryCall ==
    \A t \in Threads : pc[t] = "exit" => StaleEntries(t) = {}

\* the call of t holds the gate and is past the removals of _clean_expired_keys
SweepDone(t) ==
    lock = t /\ pc[t] \notin {"lock", "clean_scan", "clean_del_store", "clean_del_ttl"}

\* C15 amended: Sweep first in every call that takes the gate.  A call that
\* passes the argument checks made before the gate (every read and delete, a
\* create with a valid key and value, a batch_create of at most 100 items) takes
\* the gate and sweeps before its lookups and mutations: from the end of its
\* sweep to its return, every entry whose expiry had passed when it took the gate
\* is gone from both mappings (the key may be there again only as put by the
\* call itself).  A create that fails its argument check and a batch_create of
\* more than 100 items do not sweep.
C15_SweepInEveryGatedCall ==
    \A t \in Threads :
        /\ SweepDone(t) =>
              /\ StaleEntries(t) = {}
              /\ \A key \in DictKeys(pre[t].ttl_store) :
                     pre[t].now > Get(pre[t].ttl_store, key) =>
                         /\ Swept(t, key)
                         /\ Has(store, key) =>
                                \E i \in DOMAIN did[t].put : did[t].put[i][1] = key
        /\ (pc[t] = "exit" /\ lock # t) =>
              /\ result[t].status = InvalidArgument
              /\ \/ call[t].op = "create" /\ ~create_valid(call[t].key, call[t].value[1])
                 \/ call[t].op = "batch_create" /\ ~batch_valid(call[t].items)
              /\ did[t].swept = <<>>
        /\ (pc[t] = "exit" /\ lock = t) =>
              /\ call[t].op = "create" => create_valid(call[t].key, call[t].value[1])
              /\ call[t].op = "batch_create" => batch_valid(call[t].items)

\* a batch that fails at an invalid item has swept two expired entries first
C15_Witness ==
    \E t \in Threads :
        /\ AtExit(t, "batch_create")
        /\ result[t].status = InvalidArgument
        /\ lock = t
        /\ Len(did[t].swept) = 2
        /\ ttl_store = EmptyDict

---------------------------------------------------------------------------
\* C16 as stated: TTL is recorded whenever given.  At the return of a successful
\* create or batch_create called with a ttl argument (ttl = 0 included), every
\* key it inserted has an expiry, equal to the time of its insertion (between
\* the taking of the gate and the return) plus ttl; an inserted key has no expiry
\* only if no ttl was given.
C16_TtlRecordedWheneverGiven ==
    \A t \in Threads :
        (Inserting(t) /\ result[t].status = OK) =>
            \A i \in DOMAIN did[t].put :
                LET key == did[t].put[i][1]
                IN IF call[t].ttl = NoTtl
                   THEN ~Has(ttl_store, key)
                   ELSE /\ Has(ttl_store, key)
                        /\ Get(ttl_store, key) \in
                               {clock + call[t].ttl[1] : clock \in pre[t].now..now}

---------------------------------------------------------------------------
\* d without the keys of the sequence keys
Without(d, keys) == SelectSeq(d, LAMBDA p : \A i \in DOMAIN keys : keys[i] # p[1])

\* C17: Sweep removes exactly the expired entries.  When _clean_expired_keys has
\* done its removals (the call is about to save), every key whose expiry had
\* passed when the sweep began is removed, every removed key had an expiry that
\* has passed, and the two mappings are what they were without the removed keys:
\* every other entry keeps its value and expiry.  In a running engine a key
\* leaves store only in two steps: the removal of an expired key by a sweep, and
\* the removal by delete(key) of its own key; so a key without expiry leaves
\* only by a successful delete of it.
C17_SweepExact ==
    /\ [](\A t \in Threads :
            pc[t] = "clean_save" =>
                /\ \A key \in DictKeys(pre[t].ttl_store) :
                       pre[t].now > Get(pre[t].ttl_store, key) => Swept(t, key)
                /\ \A i \in DOMAIN did[t].swept :
                       /\ Has(pre[t].ttl_store, did[t].swept[i])
                       /\ now > Get(pre[t].ttl_store, did[t].swept[i])
                /\ store = Without(pre[t].store, did[t].swept)
                /\ ttl_store = Without(pre[t].ttl_store, did[t].swept))
    /\ [][\A key \in AllKeys :
            (Has(store, key) /\ ~Has(store', key) /\ ~NoCallInProgress) =>
                \E t \in Threads :
                    \/ /\ pc[t] = "clean_del_store"
                       /\ Has(ttl_store, key)
                       /\ now > Get(ttl_store, key)
                    \/ /\ pc[t] = "delete_check"
                       /\ call[t].key = key
                       /\ pc'[t] = "delete_ttl"]_vars
    /\ [](\A t \in Threads :
            (AtExit(t, "delete") /\ did[t].deleted # <<>>) => result[t].status = OK)

\* a sweep has removed key1, expired, and left key2, whose expiry has not passed
C17_Witness ==
    \E t \in Threads :
        /\ pc[t] = "clean_save"
        /\ did[t].swept = <<Key1>>
        /\ Has(store, Key2)
        /\ Has(ttl_store, Key2)
        /\ ~(now > Get(ttl_store, Key2))

---------------------------------------------------------------------------
\* the expiry recorded for key in ts: <<expiry>>, or <<>> for none
ExpiryOf(ts, key) == IF Has(ts, key) THEN <<Get(ts, key)>> ELSE <<>>

\* the call of t has just put key and stands at the statement recording its ttl
RecordingTtl(t, key) ==
    /\ pc[t] \in {"create_ttl", "batch_ttl"}
    /\ lock = t
    /\ did[t].put # <<>>
    /\ did[t].put[Len(did[t].put)][1] = key

---------------------------------------------------------------------------
---------------------------------------------------------------------------
\* the call of t was raced: while it waited at the gate, another caller's create
\* or batch_create put an entry under a key it asks for
Raced(t) == pc[t] = "exit" /\ did[t].raced # <<>>

\* the call of t has put nothing under key
PutNothingUnder(t, key) == \A i \in DOMAIN did[t].put : did[t].put[i][1] # key

\* C20 as stated: Concurrent creates of one key.  Of two concurrent calls asking
\* to insert the same absent key, the one that takes the gate second fails with
\* AlreadyExists and puts nothing, under every interleaving; the key holds the
\* value put by the first.
C20_ExactlyOneInserts ==
    \A t \in Threads :
        Raced(t) =>
            LET k == did[t].raced[1][1]
                v == did[t].raced[1][2]
            IN /\ result[t] = Outcome(AlreadyExists, NoValue)
               /\ PutNothingUnder(t, k)
               /\ Has(store, k)
               /\ Get(store, k) = v

\* C20 amended: of two concurrent calls asking to insert the same absent key,
\* the one that takes the gate second fails with AlreadyExists and puts nothing,
\* the key holding the value put by the first, provided the entry put by the
\* first is still there when the second takes the gate and is not removed by its
\* sweep.  If the entry was deleted in between, or has expired, the second call
\* inserts too, and the key holds its value.
C20_OneInsertsWhileEntryStays ==
    \A t \in Threads :
        Raced(t) =>
            LET k == did[t].raced[1][1]
                v == did[t].raced[1][2]
            IN IF Has(pre[t].store, k) /\ ~Swept(t, k)
               THEN /\ result[t] = Outcome(AlreadyExists, NoValue)
                    /\ PutNothingUnder(t, k)
                    /\ Get(pre[t].store, k) = v
                    /\ Has(store, k)
                    /\ Get(store, k) = v
               ELSE /\ result[t].status \in {OK, CapacityExceeded}
                    /\ did[t].put = Asked(call[t])
                    /\ Has(store, k)
                    /\ Get(store, k) = Asked(call[t])[1][2]

\* create(key1, v2) waited at the gate while the other caller's create put
\* (key1, v1): it has failed with AlreadyExists and key1 holds v1
C20_Witness ==
    \E t \in Threads :
        /\ AtExit(t, "create")
        /\ call[t].key = Key1
        /\ call[t].value = <<Val2>>
        /\ did[t].raced = << <<Key1, Val1>> >>
        /\ result[t].status = AlreadyExists
        /\ Get(store, Key1) = Val1

====
